---- MODULE Spec2Model ----
(***************************************************************************)
(* Model of the alerts backend (src/alerts_backend/python/app.py): the     *)
(* /create, /modify, /delete and /alert_configs handlers, the SQLite       *)
(* table aeroapi_alert_configurations (the mirror) and the AeroAPI         *)
(* /alerts resource (the remote).  Every handler is a sequence of atomic   *)
(* steps, one per access to the mirror or to the remote, so that requests  *)
(* served concurrently interleave between those accesses.                  *)
(* Beside it, the flight boards of the flights backend                     *)
(* (src/backend/python/app.py): boards_request and its cache.              *)
(***************************************************************************)
EXTENDS Integers, Sequences, FiniteSets, TLC

(* ------------------------------------------------------------------ *)
(* Bounds of the model                                                 *)
(* ------------------------------------------------------------------ *)

\* Number of identifiers the remote service issues in one run.
MaxId == 2

\* The first identifier the remote service issues.
FirstId == 41

\* Rows the table aeroapi_alerts takes before /post is no longer called.
MaxEvents == 2

\* Flights of the shortest boards of an airport, and the number of flights a
\* board may start with.
MaxBoard == 2

\* Times a flight id is cached for a board before the board is requested
\* from the remote service no more.
MaxRepeats == 1

\* The client of specification Spec: it sends one request after another and
\* keeps what each ended with until it sends the next.
Sequential == {"r1"}

\* The clients of specification SpecConc: their requests are served at the
\* same time, and what a request ended with is not kept.
Concurrent == {"c1", "c2"}

\* The one of them that also asks for /alert_configs.
Reader == {"c1"}

Procs == Sequential \cup Concurrent

\* The clients whose responses the model keeps once their request has ended.
Watched == Sequential

(* ------------------------------------------------------------------ *)
(* Program constants                                                   *)
(* ------------------------------------------------------------------ *)

DefaultMaxWeekly == 1000
StatusCreated == 201
StatusNoContent == 204
LocationPrefixLen == 8
PageSize == 15
StatusOK == 200

(* ------------------------------------------------------------------ *)
(* Values                                                              *)
(* ------------------------------------------------------------------ *)

\* Python's None / SQL NULL, and the values a JSON field or a column holds
\* besides it, each tagged with its type.
None == << >>
Str(s) == << "str", s >>
Date(y, m, d) == << "date", y, m, d >>
Num(n) == << "int", n >>
IsStr(v) == v # None /\ v[1] = "str"
IsDate(v) == v # None /\ v[1] = "date"

\* Python truthiness of a string-or-None: None and "" are falsy.
Truthy(v) == v # None /\ v # Str("")

\* dict helpers: a dict is a function from keys (strings) to values.
Put(d, k, v) == [x \in (DOMAIN d) \cup {k} |-> IF x = k THEN v ELSE d[x]]
Pop(d, k) == [x \in (DOMAIN d) \ {k} |-> d[x]]
Get(d, k, default) == IF k \in DOMAIN d THEN d[k] ELSE default

AllFalseEvents ==
    [arrival |-> FALSE, departure |-> FALSE, cancelled |-> FALSE,
     diverted |-> FALSE, filed |-> FALSE]

ArrivalEvents ==
    [arrival |-> TRUE, departure |-> FALSE, cancelled |-> FALSE,
     diverted |-> FALSE, filed |-> FALSE]

EventKeys == {"arrival", "departure", "cancelled", "diverted", "filed"}

\* Columns of the table aeroapi_alert_configurations.
Columns ==
    {"fa_alert_id", "ident", "origin", "destination", "aircraft_type",
     "start_date", "end_date", "max_weekly", "eta",
     "arrival", "cancelled", "departure", "diverted", "filed"}

FilterKeys == {"ident", "origin", "destination", "aircraft_type"}

\* datetime.strptime(s, "%Y-%m-%d"): the date a well-formed string denotes,
\* BadDate (a ValueError) for any other string.
BadDate == << "ValueError" >>
strptime(s) ==
    CASE s = "2024-01-01" -> Date(2024, 1, 1)
      [] s = "2024-02-01" -> Date(2024, 2, 1)
      [] s = "2024-03-01" -> Date(2024, 3, 1)
      [] OTHER -> BadDate

\* Decimal digits of a natural number and back (str(int), int(str)).
DigitChars == << "0", "1", "2", "3", "4", "5", "6", "7", "8", "9" >>

RECURSIVE IntToChars(_)
IntToChars(n) ==
    IF n < 10 THEN << DigitChars[n + 1] >>
    ELSE IntToChars(n \div 10) \o << DigitChars[(n % 10) + 1] >>

CharToDigit(c) == CHOOSE d \in 0..9 : DigitChars[d + 1] = c

RECURSIVE CharsToInt(_)
CharsToInt(cs) ==
    IF Len(cs) = 0 THEN 0
    ELSE 10 * CharsToInt(SubSeq(cs, 1, Len(cs) - 1)) + CharToDigit(cs[Len(cs)])

\* The Location header of a 201 response: "/alerts/<id>".
LocationHeader(id) == << "/", "a", "l", "e", "r", "t", "s", "/" >> \o IntToChars(id)

\* int(result.headers["Location"][9:])
ParseLocation_short(loc) == CharsToInt(SubSeq(loc, LocationPrefixLen + 2, Len(loc)))

\* int(result.headers["Location"][8:])
ParseLocation(loc) == CharsToInt(SubSeq(loc, LocationPrefixLen + 1, Len(loc)))

(* ------------------------------------------------------------------ *)
(* Request payloads (request.json) the front end sends                 *)
(* ------------------------------------------------------------------ *)

\* /create payloads.  A JSON string-or-null is Str(..) or None.  CreateA
\* carries neither events nor max_weekly; CreateC differs from it in
\* aircraft_type only, carries both and has no dates.
CreateA ==
    [ident |-> "UAL123", origin |-> "KSEA", destination |-> "KJFK",
     aircraft_type |-> "B738",
     start |-> Str("2024-01-01"), end |-> Str("2024-02-01")]

CreateC ==
    [ident |-> "UAL123", origin |-> "KSEA", destination |-> "KJFK",
     aircraft_type |-> "A320", max_weekly |-> 500, events |-> ArrivalEvents]

\* CreateA with a start that is no date of the calendar.
CreateB == [CreateA EXCEPT !.start = Str("2024-02-30")]

CreatePayloads == {CreateA, CreateB, CreateC}

\* The /modify payload, in the flattened shape of the table (fa_alert_id is
\* sent along and popped by the handler).  It has CreateC's filter tuple.
ModifyA ==
    [ident |-> "UAL123", origin |-> "KSEA", destination |-> "KJFK",
     aircraft_type |-> "A320",
     start_date |-> Str("2024-03-01"), end_date |-> None,
     max_weekly |-> 500,
     arrival |-> FALSE, departure |-> TRUE, cancelled |-> FALSE,
     diverted |-> FALSE, filed |-> FALSE]

ModifyPayloads == {ModifyA}

\* A configuration made directly on the remote service, not through the app.
ExternalConfig ==
    [ident |-> "DAL1", origin |-> "KATL", destination |-> "KLAX",
     aircraft_type |-> "B739", start |-> None, end |-> None,
     max_weekly |-> 7, eta |-> Num(30), events |-> ArrivalEvents]

(* ------------------------------------------------------------------ *)
(* The remote service, as the handlers see it                          *)
(* ------------------------------------------------------------------ *)

\* Statuses with which the remote turns a request down, and the bodies it
\* may send with them: JSON with a detail, JSON without one, or no JSON.
RejectStatus(known) == IF known THEN 400 ELSE 404
BodyKinds == {"detail", "nodetail", "text"}

ResponseBody(kind) ==
    CASE kind = "detail" -> << "json", [title |-> "Bad Request", detail |-> "rejected"] >>
      [] kind = "nodetail" -> << "json", [title |-> "Bad Request"] >>
      [] OTHER -> << "text", "<html>error</html>" >>

Rejection(status, kind) ==
    [status_code |-> status, body |-> ResponseBody(kind), headers |-> << >>]

Created(id) ==
    [status_code |-> StatusCreated, body |-> << "text", "" >>,
     headers |-> [Location |-> LocationHeader(id)]]

NoContent ==
    [status_code |-> StatusNoContent, body |-> << "text", "" >>, headers |-> << >>]

\* What the remote keeps of a POSTed or PUT body; it computes eta later.
RemoteConfig(body) ==
    [ident |-> body["ident"], origin |-> body["origin"],
     destination |-> body["destination"], aircraft_type |-> body["aircraft_type"],
     start |-> IF Truthy(Get(body, "start", None)) THEN body["start"] ELSE None,
     end |-> IF Truthy(Get(body, "end", None)) THEN body["end"] ELSE None,
     max_weekly |-> body["max_weekly"], eta |-> None,
     events |-> body["events"]]

(* ------------------------------------------------------------------ *)
(* State                                                               *)
(* ------------------------------------------------------------------ *)

VARIABLES
    remote,         \* the remote service's configurations: id -> configuration
    nextId,         \* the next identifier the remote service issues
    mirror,         \* table aeroapi_alert_configurations: fa_alert_id -> row
    req,            \* per client, its request: the handler's position and locals
    accepted,       \* history: ids the remote answered 201 for to a /create
    remoteGone,     \* history: ids the remote answered 204 for to a /delete
    lastDelete,     \* history, per client: its /delete that ended last, kept while the
                    \* mirror stays as it was and the client asks for /alert_configs next
    events,         \* table aeroapi_alerts: the rows in the order of their ids
    lastList,       \* history: the (id, provenance) pairs of the last answer of
                    \* /alert_configs and whether GET /alerts was answered ok,
                    \* kept until another route is called or the remote changes
    CACHE,          \* the cache of the flights backend: per board resource its
                    \* id list, per flight id its entry
    flights         \* the list the last boards_request returned

\* The variables of the alerts backend.
alertVars ==
    << remote, nextId, mirror, events, req, accepted, remoteGone, lastDelete, lastList >>

vars == << alertVars, CACHE, flights >>

EmptyDict == [x \in {} |-> 0]
NoDelete == [id |-> 0, outcome |-> "none", row |-> None]

\* The identifiers the remote service may issue in one run.
Ids == FirstId .. (FirstId + MaxId - 1)

\* The position and locals of a handler, and what it ended with:
\*   pc      where the handler stands ("idle": the client has no request)
\*   op      the route it serves
\*   data    its dict `data`
\*   aid     fa_alert_id (0 when it has none)
\*   result  the remote service's response
\*   rc      what the mirror write returned
\*   resp    the JSON response, or the exception the handler ended with
\*   ncalls  remote calls issued so far
\*   nwrites mirror writes attempted so far
\*   listed  data["alert_configurations"] of get_alert_configs
Idle ==
    [pc |-> "idle", op |-> "none", data |-> EmptyDict, aid |-> 0,
     result |-> None, rc |-> None, resp |-> None,
     ncalls |-> 0, nwrites |-> 0, listed |-> << >>]

Init ==
    /\ remote = EmptyDict
    /\ nextId = FirstId
    /\ mirror = EmptyDict
    /\ events = << >>
    /\ req = [p \in Procs |-> Idle]
    /\ accepted = {}
    /\ remoteGone = {}
    /\ lastDelete = [p \in Procs |-> NoDelete]
    /\ lastList = None
    /\ CACHE = [lists |-> EmptyDict, entries |-> EmptyDict]
    /\ flights = << >>

(* ------------------------------------------------------------------ *)
(* Helpers of the handlers                                             *)
(* ------------------------------------------------------------------ *)

\* The JSON response of a handler, or the exception it ended with.
Json(r) == << "json", r >>
Fault(name) == << "fault", name >>
IsJson(r) == r # None /\ r[1] = "json"
IsFault(r) == r # None /\ r[1] = "fault"

\* r_description: which message, and what it carries.
Desc(msg, status, detail, id) ==
    [msg |-> msg, status |-> status, detail |-> detail, id |-> id]

InvalidContent == Desc("Invalid content sent", 0, "", 0)
AlreadyConfigured == Desc("alert has already been configured", 0, "", 0)

\* The elements of a finite set of integers in ascending order.
RECURSIVE Ascending(_)
Ascending(S) ==
    IF S = {} THEN << >>
    ELSE LET lo == CHOOSE x \in S : \A y \in S : x <= y
         IN  << lo >> \o Ascending(S \ {lo})

\* The defaults set whether or not the payload has the keys.
FillDefaults_always(d) ==
    Put(Put(d, "events", AllFalseEvents), "max_weekly", DefaultMaxWeekly)

\* create_alert, lines 449-460: the defaults for absent keys.
FillDefaults(d) ==
    LET d1 == IF "events" \notin DOMAIN d THEN Put(d, "events", AllFalseEvents) ELSE d
    IN  IF "max_weekly" \notin DOMAIN d1 THEN Put(d1, "max_weekly", DefaultMaxWeekly)
        ELSE d1

\* check_if_dup that never finds a row.
check_if_dup_never(m, d) == FALSE

\* check_if_dup with the destination column compared with the origin of the
\* payload.
check_if_dup_crossed(m, d) ==
    \E id \in DOMAIN m :
        /\ m[id]["ident"] = d["ident"]
        /\ m[id]["destination"] = d["origin"]
        /\ m[id]["origin"] = d["origin"]
        /\ m[id]["aircraft_type"] = d["aircraft_type"]

\* check_if_dup: rows whose four filter columns equal the payload's.
check_if_dup(m, d) ==
    \E id \in DOMAIN m :
        /\ m[id]["ident"] = d["ident"]
        /\ m[id]["destination"] = d["destination"]
        /\ m[id]["origin"] = d["origin"]
        /\ m[id]["aircraft_type"] = d["aircraft_type"]

\* The tests of the status with another code in them.
CreateRejected_ok200(res) == res.status_code # 200
ModifyRejected_5xx(res) == res.status_code >= 500
DeleteRejected_5xx(res) == res.status_code >= 500

\* `result.status_code != 201` / `!= 204`: the request was turned down.
CreateRejected(res) == res.status_code # StatusCreated
ModifyRejected(res) == res.status_code # StatusNoContent
DeleteRejected(res) == res.status_code # StatusNoContent

\* The try/except around result.json()['detail']: the description, or the
\* KeyError that a JSON body without a detail raises inside the try.
ErrorDescription(res, id) ==
    IF res.body[1] = "json"
    THEN IF "detail" \in DOMAIN res.body[2]
         THEN Json(Desc("Error code with description", res.status_code,
                        res.body[2]["detail"], id))
         ELSE Fault("KeyError")
    ELSE Json(Desc("Error code could not be parsed into JSON", res.status_code,
                   res.body[2], id))

\* create_alert, lines 488-499: "" becomes None, a date string is parsed.
CreateDate(v) ==
    LET w == IF v = Str("") THEN None ELSE v
    IN  IF Truthy(w) THEN strptime(w[2]) ELSE w

\* modify_alert, lines 274-277: a truthy date string is parsed, None and ""
\* stay as they are.
ModifyDate(v) == IF Truthy(v) THEN strptime(v[2]) ELSE v

\* The dict handed to insert_into_table when fa_alert_id is set from
\* r_alert_id as it was initialised (-1).
InsertData_stale(d, id) ==
    [k \in ((DOMAIN d) \ {"events", "start", "end"}) \cup EventKeys
            \cup {"start_date", "end_date", "fa_alert_id"} |->
        CASE k \in EventKeys -> d["events"][k]
          [] k = "start_date" -> CreateDate(Get(d, "start", None))
          [] k = "end_date" -> CreateDate(Get(d, "end", None))
          [] k = "fa_alert_id" -> -1
          [] OTHER -> d[k]]

\* create_alert, lines 477-501: the dict handed to insert_into_table.
InsertData(d, id) ==
    LET flat == [k \in ((DOMAIN d) \ {"events", "start", "end"}) \cup EventKeys
                    \cup {"start_date", "end_date", "fa_alert_id"} |->
                    CASE k \in EventKeys -> d["events"][k]
                      [] k = "start_date" -> CreateDate(Get(d, "start", None))
                      [] k = "end_date" -> CreateDate(Get(d, "end", None))
                      [] k = "fa_alert_id" -> id
                      [] OTHER -> d[k]]
    IN  flat

\* modify_alert, lines 250-260: the body PUT to the remote service.
AdjustedData(d) ==
    [k \in ((DOMAIN d) \ (EventKeys \cup {"start_date", "end_date"}))
            \cup {"events", "start", "end"} |->
        CASE k = "events" -> [e \in EventKeys |-> d[e]]
          [] k = "start" -> d["start_date"]
          [] k = "end" -> d["end_date"]
          [] OTHER -> d[k]]

\* modify_alert, lines 274-277: the dict handed to modify_from_table.
UpdateData(d) ==
    [k \in DOMAIN d |->
        IF k \in {"start_date", "end_date"} THEN ModifyDate(d[k]) ELSE d[k]]

\* The Date columns take None or a date; the statement raises a
\* SQLAlchemyError for any other value and for a key that is no column.
Storable(d) ==
    /\ DOMAIN d \subseteq Columns
    /\ \A c \in {"start_date", "end_date"} \cap DOMAIN d : d[c] = None \/ IsDate(d[c])

\* A table row: the columns the statement does not set are NULL.
NewRow(d) == [c \in Columns |-> IF c \in DOMAIN d THEN d[c] ELSE None]

\* insert_into_table on a table with a unique constraint on the four filter
\* columns.
insert_into_table_unique(m, d, dbOk) ==
    IF /\ dbOk /\ Storable(d) /\ d["fa_alert_id"] \notin DOMAIN m
       /\ ~\E i \in DOMAIN m : \A k \in FilterKeys : m[i][k] = d[k]
    THEN [rc |-> 0, table |-> [i \in (DOMAIN m) \cup {d["fa_alert_id"]} |->
                                  IF i = d["fa_alert_id"] THEN NewRow(d) ELSE m[i]]]
    ELSE [rc |-> -1, table |-> m]

\* insert_into_table on aeroapi_alert_configurations: 0 and the new table,
\* or -1 and the table as it was.  dbOk is whether the store takes the write.
insert_into_table(m, d, dbOk) ==
    IF dbOk /\ Storable(d) /\ d["fa_alert_id"] \notin DOMAIN m
    THEN [rc |-> 0, table |-> [i \in (DOMAIN m) \cup {d["fa_alert_id"]} |->
                                  IF i = d["fa_alert_id"] THEN NewRow(d) ELSE m[i]]]
    ELSE [rc |-> -1, table |-> m]

\* delete_from_table with a where clause that no row satisfies.
delete_from_table_none(m, id, dbOk) ==
    IF dbOk THEN [rc |-> 0, table |-> m] ELSE [rc |-> -1, table |-> m]

\* delete_from_table: deletes the rows whose fa_alert_id is id.
delete_from_table(m, id, dbOk) ==
    IF dbOk
    THEN [rc |-> 0, table |-> [i \in (DOMAIN m) \ {id} |-> m[i]]]
    ELSE [rc |-> -1, table |-> m]

\* modify_from_table without the where clause: every row is updated.
modify_from_table_all(m, id, d, dbOk) ==
    IF dbOk /\ Storable(d)
    THEN [rc |-> 0, table |-> [i \in DOMAIN m |->
                                  [c \in Columns |->
                                      IF c \in DOMAIN d THEN d[c] ELSE m[i][c]]]]
    ELSE [rc |-> -1, table |-> m]

\* modify_from_table: updates the rows whose fa_alert_id is id.
modify_from_table(m, id, d, dbOk) ==
    IF dbOk /\ Storable(d)
    THEN [rc |-> 0, table |-> [i \in DOMAIN m |->
                                  IF i = id
                                  THEN [c \in Columns |->
                                           IF c \in DOMAIN d THEN d[c] ELSE m[i][c]]
                                  ELSE m[i]]]
    ELSE [rc |-> -1, table |-> m]

\* get_alert_configs, lines 364-368: the rows of the table, tagged.
AppEntries(m) ==
    LET ids == Ascending(DOMAIN m)
    IN  [i \in 1..Len(ids) |->
            [k \in Columns \cup {"is_from_app"} |->
                IF k = "is_from_app" THEN TRUE ELSE m[ids[i]][k]]]

\* existing_alert_ids left empty.
ExistingIds_none(entries) == {}

\* existing_alert_ids of get_alert_configs.
ExistingIds(entries) == {entries[i]["fa_alert_id"] : i \in 1..Len(entries)}

\* result.json()["alerts"] of GET /alerts.
RemoteAlerts(r) ==
    LET ids == Ascending(DOMAIN r)
    IN  [i \in 1..Len(ids) |->
            [id |-> ids[i], ident |-> r[ids[i]].ident, origin |-> r[ids[i]].origin,
             destination |-> r[ids[i]].destination,
             aircraft_type |-> r[ids[i]].aircraft_type,
             start |-> r[ids[i]].start, end |-> r[ids[i]].end,
             eta |-> r[ids[i]].eta, events |-> r[ids[i]].events]]

\* The entry of lines 186-202 with every event flag off.
Holder_noflags(alert) ==
    [fa_alert_id |-> alert.id, ident |-> alert.ident, origin |-> alert.origin,
     destination |-> alert.destination, aircraft_type |-> alert.aircraft_type,
     start_date |-> alert.start, end_date |-> alert.end,
     max_weekly |-> DefaultMaxWeekly, eta |-> alert.eta,
     arrival |-> FALSE, cancelled |-> FALSE, departure |-> FALSE,
     diverted |-> FALSE, filed |-> FALSE, is_from_app |-> FALSE]

\* get_alerts_not_from_app, lines 186-202: the entry made of a remote alert.
Holder(alert) ==
    [fa_alert_id |-> alert.id, ident |-> alert.ident, origin |-> alert.origin,
     destination |-> alert.destination, aircraft_type |-> alert.aircraft_type,
     start_date |-> alert.start, end_date |-> alert.end,
     max_weekly |-> DefaultMaxWeekly, eta |-> alert.eta,
     arrival |-> alert.events.arrival, cancelled |-> alert.events.cancelled,
     departure |-> alert.events.departure, diverted |-> alert.events.diverted,
     filed |-> alert.events.filed, is_from_app |-> FALSE]

\* The loop of get_alerts_not_from_app without the test of line 183.
NotFromApp_all(alert, existing) == TRUE

\* The test of line 183: the alert is not one of the app's.
NotFromApp(alert, existing) == alert.id \notin existing

\* get_alerts_not_from_app, lines 181-204, on the alerts of a 200 response.
RECURSIVE get_alerts_not_from_app(_, _)
get_alerts_not_from_app(existing, alerts) ==
    IF Len(alerts) = 0 THEN << >>
    ELSE (IF NotFromApp(Head(alerts), existing) THEN << Holder(Head(alerts)) >> ELSE << >>)
         \o get_alerts_not_from_app(existing, Tail(alerts))

(* ------------------------------------------------------------------ *)
(* Steps shared by the handlers                                        *)
(* ------------------------------------------------------------------ *)

\* A request of route r that has just come in.
Fresh(r) == [Idle EXCEPT !.op = r]

\* Client p has no request in flight and may send the next one.
Ready(p) == req[p].pc = "idle"

\* Client p has seen its /delete end and has not sent another request.
AfterDelete(p) == req[p].pc \in {"done", "fault"} /\ req[p].op = "delete"

\* The handler returns jsonify(r), or ends with an unhandled exception.
End(n, r) ==
    [n EXCEPT !.pc = IF IsFault(r) THEN "fault" ELSE "done", !.resp = r,
              !.listed = << >>]

\* The request of client p goes on as n.  What a request ended with is kept
\* for the watched clients, until their next request.
Commit(p, n) ==
    req' = [req EXCEPT ![p] =
               IF n.pc \in {"done", "fault"} /\ p \notin Watched THEN Idle ELSE n]

\* The row of id in the table, if any.
RowOf(m, id) == IF id \in DOMAIN m THEN << "row", m[id] >> ELSE None

\* What the clients know of their last /delete after a step of client p that
\* leaves the table as m2 and client p's own knowledge as own: a /delete that
\* has ended tells about the rows only while the table stays as it was.
Known(p, m2, own) ==
    [q \in Procs |->
        IF q = p THEN (IF p \in Watched THEN own ELSE NoDelete)
        ELSE IF m2 # mirror /\ AfterDelete(q) THEN NoDelete ELSE lastDelete[q]]

DeleteEnded(id, outcome) == [id |-> id, outcome |-> outcome, row |-> RowOf(mirror, id)]

\* Whether a parsed dict holds a date that strptime refused.
HasBadDate(d) == d["start_date"] = BadDate \/ d["end_date"] = BadDate

CreateResponse(id, success, desc) ==
    Json([Alert_id |-> id, Success |-> success, Description |-> desc])

PlainResponse(success, desc) ==
    Json([Success |-> success, Description |-> desc])

\* The response to a request the remote service turned down.
RejectedResponse(route, res, id) ==
    LET e == ErrorDescription(res, id)
    IN  IF IsFault(e) THEN e
        ELSE IF route = "create" THEN CreateResponse(-1, FALSE, e[2])
        ELSE PlainResponse(FALSE, e[2])

(* ------------------------------------------------------------------ *)
(* /create                                                             *)
(* ------------------------------------------------------------------ *)

\* create_alert, lines 436-465: content type, defaults, duplicate check.
create_check(n, json, payload, dbOk) ==
    LET d == FillDefaults(payload)
        n1 == [n EXCEPT !.data = d]
    IN  IF ~json THEN End(n, CreateResponse(-1, FALSE, InvalidContent))
        ELSE IF ~dbOk THEN End(n1, Fault("SQLAlchemyError"))
        ELSE IF check_if_dup(mirror, d)
             THEN End(n1, CreateResponse(-1, FALSE, AlreadyConfigured))
             ELSE [n1 EXCEPT !.pc = "create_post"]

CreateCheck(p) ==
    /\ Ready(p)
    /\ \/ Commit(p, create_check(Fresh("create"), FALSE, CreateA, TRUE))
       \/ \E payload \in CreatePayloads, dbOk \in BOOLEAN :
             Commit(p, create_check(Fresh("create"), TRUE, payload, dbOk))
    /\ lastDelete' = Known(p, mirror, NoDelete)
    /\ UNCHANGED << remote, nextId, mirror, accepted, remoteGone >>
    /\ lastList' = None
    /\ UNCHANGED events
    /\ UNCHANGED << CACHE, flights >>

\* create_alert, lines 468-501, on the response of POST /alerts.
create_handle(n0, res) ==
    LET n == [n0 EXCEPT !.result = res, !.ncalls = @ + 1]
    IN  IF CreateRejected(res) THEN End(n, RejectedResponse("create", res, 0))
        ELSE IF "Location" \notin DOMAIN res.headers THEN End(n, Fault("KeyError"))
        ELSE LET id == ParseLocation(res.headers["Location"])
                 d == InsertData(n.data, id)
             IN  IF HasBadDate(d) THEN End([n EXCEPT !.aid = id], Fault("ValueError"))
                 ELSE [n EXCEPT !.pc = "create_insert", !.aid = id, !.data = d]

\* create_alert, line 467: POST /alerts.  The remote service is out of reach,
\* turns the request down, or stores the configuration and issues its id.
CreatePost(p) ==
    /\ req[p].pc = "create_post"
    /\ \/ /\ Commit(p, End([req[p] EXCEPT !.ncalls = @ + 1], Fault("ConnectionError")))
          /\ UNCHANGED << remote, nextId, accepted, remoteGone >>
       \/ /\ \E kind \in BodyKinds :
                Commit(p, create_handle(req[p], Rejection(RejectStatus(TRUE), kind)))
          /\ UNCHANGED << remote, nextId, accepted, remoteGone >>
       \/ /\ nextId \in Ids
          /\ remote' = [i \in (DOMAIN remote) \cup {nextId} |->
                           IF i = nextId THEN RemoteConfig(req[p].data) ELSE remote[i]]
          /\ nextId' = nextId + 1
          /\ accepted' = accepted \cup {nextId}
          /\ Commit(p, create_handle(req[p], Created(nextId)))
    /\ UNCHANGED << mirror, remoteGone, lastDelete >>
    /\ lastList' = None
    /\ UNCHANGED events
    /\ UNCHANGED << CACHE, flights >>

\* The response after the insert with r_alert_id set back to -1 on failure.
create_insert_noid(n0, r) ==
    LET n == [n0 EXCEPT !.rc = Num(r.rc), !.nwrites = @ + 1]
    IN  IF r.rc = -1
        THEN End(n, CreateResponse(-1, FALSE,
                    Desc("Database insertion error", 0, "", n.aid)))
        ELSE End(n, CreateResponse(n.aid, TRUE,
                    Desc("Request sent successfully", 0, "", n.aid)))

\* create_alert, lines 503-507: the insert into the mirror and the response.
create_insert(n0, r) ==
    LET n == [n0 EXCEPT !.rc = Num(r.rc), !.nwrites = @ + 1]
    IN  IF r.rc = -1
        THEN End(n, CreateResponse(n.aid, FALSE,
                    Desc("Database insertion error", 0, "", n.aid)))
        ELSE End(n, CreateResponse(n.aid, TRUE,
                    Desc("Request sent successfully", 0, "", n.aid)))

CreateInsert(p) ==
    /\ req[p].pc = "create_insert"
    /\ \E dbOk \in BOOLEAN :
          LET r == insert_into_table(mirror, req[p].data, dbOk)
          IN  /\ mirror' = r.table
              /\ Commit(p, create_insert(req[p], r))
              /\ lastDelete' = Known(p, r.table, NoDelete)
    /\ UNCHANGED << remote, nextId, accepted, remoteGone >>
    /\ lastList' = None
    /\ UNCHANGED events
    /\ UNCHANGED << CACHE, flights >>

(* ------------------------------------------------------------------ *)
(* /modify                                                             *)
(* ------------------------------------------------------------------ *)

\* modify_alert, lines 265-277, on the response of PUT /alerts/<id>.
modify_handle(n0, payload, res) ==
    LET n == [n0 EXCEPT !.result = res]
    IN  IF ModifyRejected(res) THEN End(n, RejectedResponse("modify", res, n.aid))
        ELSE LET d == UpdateData(payload)
             IN  IF HasBadDate(d) THEN End(n, Fault("ValueError"))
                 ELSE [n EXCEPT !.pc = "modify_update", !.data = d]

\* modify_alert, lines 236-264: content type, the PUT body, PUT /alerts/<id>.
\* The remote service is out of reach, turns the request down, or takes the
\* new values of a configuration it holds.
ModifyPut(p) ==
    /\ Ready(p)
    /\ \/ /\ Commit(p, End(Fresh("modify"), PlainResponse(FALSE, InvalidContent)))
          /\ UNCHANGED remote
       \/ \E id \in Ids, payload \in ModifyPayloads :
             LET n == [Fresh("modify") EXCEPT !.aid = id, !.ncalls = 1]
             IN  \/ /\ Commit(p, End(n, Fault("ConnectionError")))
                    /\ UNCHANGED remote
                 \/ /\ \E kind \in BodyKinds :
                          Commit(p, modify_handle(n, payload,
                                     Rejection(RejectStatus(id \in DOMAIN remote), kind)))
                    /\ UNCHANGED remote
                 \/ /\ id \in DOMAIN remote
                    /\ remote' = [remote EXCEPT ![id] = RemoteConfig(AdjustedData(payload))]
                    /\ Commit(p, modify_handle(n, payload, NoContent))
    /\ lastDelete' = Known(p, mirror, NoDelete)
    /\ UNCHANGED << nextId, mirror, accepted, remoteGone >>
    /\ lastList' = None
    /\ UNCHANGED events
    /\ UNCHANGED << CACHE, flights >>

\* The response after the update when the return value is not looked at.
modify_update_blind(n0, r) ==
    LET n == [n0 EXCEPT !.rc = Num(r.rc), !.nwrites = @ + 1]
    IN  End(n, PlainResponse(TRUE,
                   Desc("alert configuration has been updated", 0, "", n.aid)))

\* modify_alert, lines 280-288: the update of the mirror and the response.
modify_update(n0, r) ==
    LET n == [n0 EXCEPT !.rc = Num(r.rc), !.nwrites = @ + 1]
    IN  IF r.rc = -1
        THEN End(n, PlainResponse(FALSE,
                    Desc("Error modifying the alert configuration", 0, "", n.aid)))
        ELSE End(n, PlainResponse(TRUE,
                    Desc("alert configuration has been updated", 0, "", n.aid)))

ModifyUpdate(p) ==
    /\ req[p].pc = "modify_update"
    /\ \E dbOk \in BOOLEAN :
          LET r == modify_from_table(mirror, req[p].aid, req[p].data, dbOk)
          IN  /\ mirror' = r.table
              /\ Commit(p, modify_update(req[p], r))
              /\ lastDelete' = Known(p, r.table, NoDelete)
    /\ UNCHANGED << remote, nextId, accepted, remoteGone >>
    /\ lastList' = None
    /\ UNCHANGED events
    /\ UNCHANGED << CACHE, flights >>

(* ------------------------------------------------------------------ *)
(* /delete                                                             *)
(* ------------------------------------------------------------------ *)

\* delete_alert, lines 315-322, on the response of DELETE /alerts/<id>.
delete_handle(n0, res) ==
    LET n == [n0 EXCEPT !.result = res]
    IN  IF DeleteRejected(res) THEN End(n, RejectedResponse("delete", res, n.aid))
        ELSE [n EXCEPT !.pc = "delete_local"]

\* delete_alert, lines 301-314: content type and DELETE /alerts/<id>.  The
\* remote service is out of reach, turns the request down, or deletes a
\* configuration it holds.
DeleteCall(p) ==
    /\ Ready(p)
    /\ \/ /\ Commit(p, End(Fresh("delete"), PlainResponse(FALSE, InvalidContent)))
          /\ lastDelete' = Known(p, mirror, NoDelete)
          /\ UNCHANGED << remote, remoteGone >>
       \/ \E id \in Ids :
             LET n == [Fresh("delete") EXCEPT !.aid = id, !.ncalls = 1]
             IN  \/ /\ Commit(p, End(n, Fault("ConnectionError")))
                    /\ lastDelete' = Known(p, mirror, DeleteEnded(id, "unreachable"))
                    /\ UNCHANGED << remote, remoteGone >>
                 \/ /\ \E kind \in BodyKinds :
                          Commit(p, delete_handle(n,
                                     Rejection(RejectStatus(id \in DOMAIN remote), kind)))
                    /\ lastDelete' = Known(p, mirror, DeleteEnded(id, "rejected"))
                    /\ UNCHANGED << remote, remoteGone >>
                 \/ /\ id \in DOMAIN remote
                    /\ remote' = [i \in (DOMAIN remote) \ {id} |-> remote[i]]
                    /\ remoteGone' = remoteGone \cup {id}
                    /\ Commit(p, delete_handle(n, NoContent))
                    /\ lastDelete' = Known(p, mirror, NoDelete)
    /\ UNCHANGED << nextId, mirror, accepted >>
    /\ lastList' = None
    /\ UNCHANGED events
    /\ UNCHANGED << CACHE, flights >>

\* The response after the delete when the return value is not looked at.
delete_local_blind(n0, r) ==
    LET n == [n0 EXCEPT !.rc = Num(r.rc), !.nwrites = @ + 1]
    IN  End(n, PlainResponse(TRUE,
                   Desc("alert configuration has been deleted", 0, "", n.aid)))

\* delete_alert, lines 324-330: the delete from the mirror and the response.
delete_local(n0, r) ==
    LET n == [n0 EXCEPT !.rc = Num(r.rc), !.nwrites = @ + 1]
    IN  IF r.rc = -1
        THEN End(n, PlainResponse(FALSE,
                    Desc("Error deleting the alert configuration", 0, "", n.aid)))
        ELSE End(n, PlainResponse(TRUE,
                    Desc("alert configuration has been deleted", 0, "", n.aid)))

DeleteLocal(p) ==
    /\ req[p].pc = "delete_local"
    /\ \E dbOk \in BOOLEAN :
          LET r == delete_from_table(mirror, req[p].aid, dbOk)
          IN  /\ mirror' = r.table
              /\ Commit(p, delete_local(req[p], r))
              /\ lastDelete' = Known(p, r.table,
                                    DeleteEnded(req[p].aid, IF r.rc = -1 THEN "mirror failed"
                                                        ELSE "deleted"))
    /\ UNCHANGED << remote, nextId, accepted, remoteGone >>
    /\ lastList' = None
    /\ UNCHANGED events
    /\ UNCHANGED << CACHE, flights >>

(* ------------------------------------------------------------------ *)
(* /alert_configs                                                      *)
(* ------------------------------------------------------------------ *)

\* The multiset of (id, provenance) pairs of a listing: pair -> occurrences.
PairsOf(listing) ==
    LET pair(i) == << listing[i]["fa_alert_id"], listing[i]["is_from_app"] >>
    IN  [pr \in {pair(i) : i \in 1..Len(listing)} |->
            Cardinality({i \in 1..Len(listing) : pair(i) = pr})]

\* get_alert_configs, lines 358-368: the select on the mirror.  The handler
\* catches nothing, so an error of the store ends it.
list_read(n, dbOk) ==
    IF dbOk THEN [n EXCEPT !.pc = "list_get", !.listed = AppEntries(mirror)]
    ELSE End(n, Fault("SQLAlchemyError"))

ListRead(p) ==
    /\ Ready(p) \/ AfterDelete(p)
    /\ \E dbOk \in BOOLEAN :
          /\ Commit(p, list_read(Fresh("list"), dbOk))
          /\ lastDelete' = Known(p, mirror, IF dbOk THEN lastDelete[p] ELSE NoDelete)
    /\ UNCHANGED << remote, nextId, mirror, accepted, remoteGone >>
    /\ lastList' = IF req'[p].pc = "fault" THEN None ELSE lastList
    /\ UNCHANGED events
    /\ UNCHANGED << CACHE, flights >>

\* get_alert_configs, lines 371-374: the entries of get_alerts_not_from_app
\* are appended.  alerts is None when the response is not ok (line 176).
list_get(n0, alerts) ==
    LET n == [n0 EXCEPT !.ncalls = @ + 1, !.result = [ok |-> alerts # None]]
        rest == IF alerts = None THEN << >>
                ELSE get_alerts_not_from_app(ExistingIds(n.listed), alerts[2])
    IN  End(n, Json([alert_configurations |-> n.listed \o rest]))

\* get_alerts_not_from_app, line 175: GET /alerts.  The remote service is out
\* of reach, answers with an error status, or lists its configurations.
ListGet(p) ==
    /\ req[p].pc = "list_get"
    /\ \/ Commit(p, End([req[p] EXCEPT !.ncalls = @ + 1], Fault("ConnectionError")))
       \/ Commit(p, list_get(req[p], None))
       \/ Commit(p, list_get(req[p], << "alerts", RemoteAlerts(remote) >>))
    /\ UNCHANGED << remote, nextId, mirror, accepted, remoteGone, lastDelete >>
    /\ lastList' = IF p \in Watched /\ req'[p].pc = "done"
                   THEN << "pairs", PairsOf(req'[p].resp[2].alert_configurations),
                           req'[p].result.ok >>
                   ELSE None
    /\ UNCHANGED events
    /\ UNCHANGED << CACHE, flights >>

(* ------------------------------------------------------------------ *)
(* /post                                                               *)
(* ------------------------------------------------------------------ *)

\* The keys handle_alert reads from the notification and from its "flight".
AlertKeys ==
    {"long_description", "short_description", "summary", "event_code", "alert_id"}
FlightKeys ==
    {"fa_flight_id", "ident", "registration", "aircraft_type", "origin", "destination"}

\* Notifications the remote service posts: two with every key, one without
\* "summary", one whose "flight" has no "ident", one without "flight".
NoteComplete ==
    [long_description |-> "UAL123 arrived at KJFK", short_description |-> "arrived",
     summary |-> "UAL123 arrived", event_code |-> "arrival", alert_id |-> FirstId,
     flight |-> [fa_flight_id |-> "UAL123-1", ident |-> "UAL123",
                 registration |-> "N12345", aircraft_type |-> "B738",
                 origin |-> "KSEA", destination |-> "KJFK"]]
NoteDeparture ==
    [NoteComplete EXCEPT !.long_description = "UAL123 departed from KSEA",
                         !.short_description = "departed",
                         !.summary = "UAL123 departed", !.event_code = "departure"]
NoteNoSummary == Pop(NoteComplete, "summary")
NoteNoIdent == [NoteComplete EXCEPT !.flight = Pop(@, "ident")]
NoteNoFlight == Pop(NoteComplete, "flight")
Notifications == {NoteComplete, NoteDeparture, NoteNoSummary, NoteNoIdent, NoteNoFlight}

\* handle_alert, lines 392-404: processed_data, or the KeyError of a key
\* that is not there.
processed_data(data) ==
    IF /\ AlertKeys \subseteq DOMAIN data
       /\ "flight" \in DOMAIN data
       /\ FlightKeys \subseteq DOMAIN data["flight"]
    THEN << "data", [k \in AlertKeys \cup FlightKeys |->
                        IF k \in AlertKeys THEN data[k] ELSE data["flight"][k]] >>
    ELSE << "KeyError" >>

\* insert_into_table on aeroapi_alerts when the statement replaces the rows.
insert_into_alerts_replace(t, d, dbOk) ==
    IF dbOk THEN [rc |-> 0, table |-> << Put(d, "id", Len(t) + 1) >>]
    ELSE [rc |-> -1, table |-> t]

\* insert_into_table on aeroapi_alerts: the row gets the next id.
insert_into_alerts(t, d, dbOk) ==
    IF dbOk THEN [rc |-> 0, table |-> Append(t, Put(d, "id", Len(t) + 1))]
    ELSE [rc |-> -1, table |-> t]

\* The response of handle_alert: the JSON body, whose status is also the
\* status of the HTTP response.
PostResponse(title, detail, status) ==
    Json([title |-> title, detail |-> detail, status |-> status])

\* handle_alert on notification data: the request as it ends and the table.
handle_alert(n0, data, dbOk) ==
    LET n == [n0 EXCEPT !.data = data]
        pd == processed_data(data)
    IN  IF pd = << "KeyError" >>
        THEN [n |-> End(n, PostResponse("Missing info in request",
                    "At least one value to insert in the database is missing in the post request",
                    400)),
              table |-> events]
        ELSE LET r == insert_into_alerts(events, pd[2], dbOk)
                 n1 == [n EXCEPT !.rc = Num(r.rc), !.nwrites = @ + 1]
             IN  IF r.rc = -1
                 THEN [n |-> End(n1, PostResponse("Error inserting into SQL Database",
                             "Inserting into the database had an error", 500)),
                       table |-> r.table]
                 ELSE [n |-> End(n1, PostResponse("Successful request",
                             "Request processed and stored successfully", 200)),
                       table |-> r.table]

HandleAlert(p) ==
    /\ Ready(p)
    /\ Len(events) < MaxEvents
    /\ \E data \in Notifications, dbOk \in BOOLEAN :
          LET r == handle_alert(Fresh("post"), data, dbOk)
          IN  /\ events' = r.table
              /\ Commit(p, r.n)
    /\ lastDelete' = Known(p, mirror, NoDelete)
    /\ lastList' = None
    /\ UNCHANGED << remote, nextId, mirror, accepted, remoteGone >>
    /\ UNCHANGED << CACHE, flights >>

(* ------------------------------------------------------------------ *)
(* The flight boards                                                    *)
(* ------------------------------------------------------------------ *)

\* The board resource the model follows, and the key of its flights in the
\* response of the remote service.
Resources == {"/airports/KSEA/flights/arrivals"}
ObjectName == "arrivals"

\* A board as the remote service sends it: k flights, the first of them
\* flight a.  Of a flight only its fa_flight_id is kept.
Window(a, k) == [i \in 1..k |-> [fa_flight_id |-> a + i - 1]]

\* The remote service sends a short board or a full page, starting with any of
\* the first flights; no board has a flight twice.
Boards == {Window(a, k) : a \in 1..MaxBoard, k \in (0..MaxBoard) \cup {PageSize}}

\* What GET <api_resource> is answered with: a board, or an error status.
BoardResponses ==
    {[status_code |-> StatusOK, body |-> [b \in {ObjectName} |-> board]] : board \in Boards}
    \cup {[status_code |-> 503, body |-> None]}

\* The flight entries whose expiry the model follows.
Expiring == 1..MaxBoard

\* format_response: the list under top_level, fa_flight_id renamed to id; the
\* single object instead of the list when top_level is "flights".
format_response(raw_payload, top_level) ==
    LET formatted_payload ==
            [i \in 1..Len(raw_payload[top_level]) |->
                [id |-> raw_payload[top_level][i].fa_flight_id]]
    IN  IF top_level = "flights" THEN formatted_payload[1] ELSE formatted_payload

\* boards_request, lines 35-38: the cached entries of the ids of id_list, in
\* its order; an id whose entry is gone is skipped.
RECURSIVE CachedFlights(_, _)
CachedFlights(c, id_list) ==
    IF Len(id_list) = 0 THEN << >>
    ELSE (IF Head(id_list) \in DOMAIN c.entries
          THEN << c.entries[Head(id_list)] >> ELSE << >>)
         \o CachedFlights(c, Tail(id_list))

\* boards_request, lines 34-41: id_list and flights as the cache gives them.
FromCache(c, api_resource) ==
    LET id_list == IF api_resource \in DOMAIN c.lists
                   THEN c.lists[api_resource] ELSE << >>
    IN  [id_list |-> id_list, flights |-> CachedFlights(c, id_list)]

\* boards_request, lines 51-54: every new entry is cached under its id, and
\* appended to flights and its id to id_list.
Merge(c, api_resource, got, new_flights) ==
    LET ids == {new_flights[i].id : i \in 1..Len(new_flights)}
        entry(id) == new_flights[CHOOSE i \in 1..Len(new_flights) :
                                    /\ new_flights[i].id = id
                                    /\ \A j \in (i+1)..Len(new_flights) :
                                          new_flights[j].id # id]
        id_list == got.id_list \o [i \in 1..Len(new_flights) |-> new_flights[i].id]
    IN  [cache |->
            [lists |-> Put(c.lists, api_resource, id_list),
             entries |-> [id \in (DOMAIN c.entries) \cup ids |->
                             IF id \in ids THEN entry(id) ELSE c.entries[id]]],
         flights |-> got.flights \o new_flights,
         aborted |-> FALSE]

\* boards_request: the cache after the call and the list returned, or the
\* abort on a status other than 200.
boards_request(c, api_resource, api_object_name, result) ==
    LET got == FromCache(c, api_resource)
    IN  IF Len(got.flights) < PageSize
        THEN IF result.status_code # StatusOK
             THEN [cache |-> c, flights |-> << >>, aborted |-> TRUE]
             ELSE Merge(c, api_resource, got,
                        format_response(result.body, api_object_name))
        ELSE [cache |-> c, flights |-> got.flights, aborted |-> FALSE]

\* Number of times id occurs in id_list.
Occurrences(id_list, id) == Cardinality({i \in 1..Len(id_list) : id_list[i] = id})

\* A call of boards_request for api_resource, served from the cache or with
\* the response of the remote service.
BoardsRequest(api_resource) ==
    /\ LET got == FromCache(CACHE, api_resource)
       IN  Len(got.flights) < PageSize
           => \A i \in 1..Len(got.id_list) :
                 Occurrences(got.id_list, got.id_list[i]) <= MaxRepeats
    /\ \E result \in BoardResponses :
          LET r == boards_request(CACHE, api_resource, ObjectName, result)
          IN  /\ CACHE' = r.cache
              /\ flights' = r.flights
    /\ UNCHANGED alertVars

\* The id list of a board reaches CACHE_DEFAULT_TIMEOUT and is dropped.
ExpireBoard(api_resource) ==
    /\ api_resource \in DOMAIN CACHE.lists
    /\ CACHE' = [CACHE EXCEPT !.lists = Pop(@, api_resource)]
    /\ UNCHANGED << alertVars, flights >>

\* The entry of a flight reaches CACHE_DEFAULT_TIMEOUT and is dropped.
ExpireFlight(fa_flight_id) ==
    /\ fa_flight_id \in DOMAIN CACHE.entries
    /\ CACHE' = [CACHE EXCEPT !.entries = Pop(@, fa_flight_id)]
    /\ UNCHANGED << alertVars, flights >>

(* ------------------------------------------------------------------ *)
(* The rest of the system                                              *)
(* ------------------------------------------------------------------ *)

\* The client has read the response and turns to its next request.
Forgot(p) ==
    /\ req[p].pc \in {"done", "fault"}
    /\ Commit(p, Idle)
    /\ lastDelete' = Known(p, mirror, NoDelete)
    /\ UNCHANGED << remote, nextId, mirror, accepted, remoteGone >>
    /\ UNCHANGED lastList
    /\ UNCHANGED events
    /\ UNCHANGED << CACHE, flights >>

\* A configuration is created on the remote service by another of its users.
ExternalCreate ==
    /\ nextId \in Ids
    /\ remote' = [i \in (DOMAIN remote) \cup {nextId} |->
                     IF i = nextId THEN ExternalConfig ELSE remote[i]]
    /\ nextId' = nextId + 1
    /\ UNCHANGED << mirror, req, accepted, remoteGone, lastDelete >>
    /\ lastList' = None
    /\ UNCHANGED events
    /\ UNCHANGED << CACHE, flights >>

Next ==
    \/ \E p \in Sequential : CreateCheck(p)
    \/ \E p \in Sequential : CreatePost(p)
    \/ \E p \in Sequential : CreateInsert(p)
    \/ \E p \in Sequential : ModifyPut(p)
    \/ \E p \in Sequential : ModifyUpdate(p)
    \/ \E p \in Sequential : DeleteCall(p)
    \/ \E p \in Sequential : DeleteLocal(p)
    \/ \E p \in Sequential : ListRead(p)
    \/ \E p \in Sequential : ListGet(p)
    \/ \E p \in Sequential : Forgot(p)
    \/ ExternalCreate

\* One client, request after request, beside the other users of the remote.
Spec == Init /\ [][Next]_vars

NextConc ==
    \/ \E p \in Concurrent : CreateCheck(p)
    \/ \E p \in Concurrent : CreatePost(p)
    \/ \E p \in Concurrent : CreateInsert(p)
    \/ \E p \in Concurrent : ModifyPut(p)
    \/ \E p \in Concurrent : ModifyUpdate(p)
    \/ \E p \in Concurrent : DeleteCall(p)
    \/ \E p \in Concurrent : DeleteLocal(p)
    \/ \E p \in Reader : ListRead(p)
    \/ \E p \in Reader : ListGet(p)
    \/ ExternalCreate

\* Two clients whose requests interleave at every access to the mirror and to
\* the remote service.
SpecConc == Init /\ [][NextConc]_vars

NextPost ==
    \/ \E p \in Sequential : HandleAlert(p)
    \/ \E p \in Sequential : ListRead(p)
    \/ \E p \in Sequential : ListGet(p)
    \/ \E p \in Sequential : Forgot(p)
    \/ ExternalCreate

\* The notifications of the remote service coming in beside the listing of
\* the configurations.  /post shares no table and no variable with /create,
\* /modify and /delete, whose steps leave aeroapi_alerts as it is.
SpecPost == Init /\ [][NextPost]_vars

NextBoards ==
    \/ \E api_resource \in Resources : BoardsRequest(api_resource)
    \/ \E api_resource \in Resources : ExpireBoard(api_resource)
    \/ \E fa_flight_id \in Expiring : ExpireFlight(fa_flight_id)

\* The calls of boards_request for a board, one after another, while the
\* entries of the cache expire.
SpecBoards == Init /\ [][NextBoards]_vars

(* ------------------------------------------------------------------ *)
(* Properties                                                          *)
(* ------------------------------------------------------------------ *)

\* The four filter fields of d equal those of a row of table m.
MatchesRow(m, d) == \E id \in DOMAIN m : \A k \in FilterKeys : m[id][k] = d[k]

\* A /create of client p has come in with JSON content and the duplicate
\* check has read the table (this step).
CreateChecked(p) ==
    /\ req[p].pc = "idle"
    /\ req'[p].op = "create"
    /\ DOMAIN req'[p].data # {}
    /\ req'[p].resp # Fault("SQLAlchemyError")

\* Both dates of a /create payload (after the defaults) are absent, empty or
\* well-formed.
ValidDates(d) ==
    \A k \in {"start", "end"} :
        ~Truthy(Get(d, k, None)) \/ IsDate(strptime(Get(d, k, None)[2]))

\* C1: a Create whose (ident, origin, destination, aircraft_type) equals that
\* of a row of the mirror ends at the duplicate check: no call to the remote
\* service, the response is Success = false with Alert_id -1 (no alert id),
\* and the mirror (and the remote) are unchanged.
C1_DuplicateCreate ==
    [][\A p \in Watched :
          (CreateChecked(p) /\ MatchesRow(mirror, req'[p].data))
          => /\ req'[p].pc = "done"
             /\ req'[p].ncalls = 0
             /\ req'[p].resp = CreateResponse(-1, FALSE, AlreadyConfigured)
             /\ mirror' = mirror
             /\ remote' = remote]_vars

\* A Create has ended as a duplicate of a row the mirror holds.
C1_Witness ==
    /\ req["r1"].op = "create" /\ req["r1"].pc = "done"
    /\ req["r1"].resp = CreateResponse(-1, FALSE, AlreadyConfigured)
    /\ req["r1"].ncalls = 0
    /\ MatchesRow(mirror, req["r1"].data)

\* C2: a Create with JSON content and well-formed dates whose tuple matches
\* no row of the mirror calls the remote create exactly once; when the remote
\* answers 201 the handler performs exactly one insert into the mirror, and
\* the row it inserts carries the id the remote issued in that answer.
C2_OneCallOneInsert ==
    [][\A p \in Watched :
          /\ (CreateChecked(p) /\ ~MatchesRow(mirror, req'[p].data))
             => req'[p].pc = "create_post" /\ req'[p].ncalls = 0
          /\ (req[p].pc = "create_post" /\ req'[p] # req[p] /\ ValidDates(req[p].data))
             => /\ req'[p].ncalls = 1
                /\ req'[p].nwrites = 0
                /\ (nextId' # nextId)
                   => /\ req'[p].pc = "create_insert"
                      /\ req'[p].result.status_code = StatusCreated
                      /\ req'[p].aid = nextId
                      /\ req'[p].data["fa_alert_id"] = nextId
                /\ (nextId' = nextId) => req'[p].pc \in {"done", "fault"}
          /\ (req[p].pc = "create_insert" /\ req'[p] # req[p])
             => /\ req'[p].pc = "done"
                /\ req'[p].ncalls = 1
                /\ req'[p].nwrites = 1
                /\ \/ mirror' = mirror
                   \/ /\ DOMAIN mirror' = (DOMAIN mirror) \cup {req[p].aid}
                      /\ req[p].aid \notin DOMAIN mirror
                      /\ mirror'[req[p].aid]["fa_alert_id"] = req[p].aid
                      /\ \A id \in DOMAIN mirror : mirror'[id] = mirror[id]]_vars

\* A Create has ended after one remote call and one insert, and the mirror
\* holds the row under the id of the Location header.
C2_Witness ==
    /\ req["r1"].op = "create" /\ req["r1"].pc = "done"
    /\ req["r1"].ncalls = 1 /\ req["r1"].nwrites = 1
    /\ req["r1"].result.headers["Location"] = LocationHeader(req["r1"].aid)
    /\ req["r1"].aid \in DOMAIN mirror
    /\ req["r1"].aid >= 10

\* C3: every row of the mirror carries an id the remote service issued, in a
\* 201 answer, to an earlier Create; no step inserts a row whose id the
\* remote had not already issued to a Create before that step.
C3_InsertAfterAccept ==
    [][/\ DOMAIN mirror' \subseteq accepted'
       /\ \A id \in (DOMAIN mirror') \ (DOMAIN mirror) :
             /\ id \in accepted
             /\ \E p \in Procs : req[p].pc = "create_insert" /\ req[p].aid = id
                                  /\ req[p].ncalls = 1]_vars

\* A row is in the mirror while another client's Create is about to insert.
C3_Witness ==
    /\ DOMAIN mirror # {}
    /\ DOMAIN mirror \subseteq accepted
    /\ \E p \in Concurrent : req[p].pc = "create_insert"


\* C4 as stated: in every reachable state each id of the mirror is an id of a
\* configuration the remote service holds.
C4_MirrorSubsetRemote == DOMAIN mirror \subseteq DOMAIN remote

\* C4, amended: in every reachable state each id of the mirror was issued by
\* the remote service to a Create, and the remote either still holds the
\* configuration of that id or has deleted it in answer to a Delete.
C4_MirrorIssuedByRemote ==
    \A id \in DOMAIN mirror :
        /\ id \in accepted
        /\ mirror[id]["fa_alert_id"] = id
        /\ id \in DOMAIN remote \/ id \in remoteGone

\* No request is in flight, and the mirror holds a row of an id the remote
\* has deleted.
C4_Witness ==
    /\ \A p \in Procs : req[p].pc = "idle"
    /\ \E id \in DOMAIN mirror : id \notin DOMAIN remote /\ id \in remoteGone

\* The description of a rejection carries what the remote sent: the detail
\* of a JSON body, the raw text of any other body.
CarriesDetail(resp, res) ==
    /\ IsJson(resp)
    /\ resp[2].Success = FALSE
    /\ resp[2].Description.status = res.status_code
    /\ \/ /\ res.body[1] = "json"
          /\ "detail" \in DOMAIN res.body[2]
          /\ resp[2].Description.detail = res.body[2]["detail"]
       \/ /\ res.body[1] = "text"
          /\ resp[2].Description.detail = res.body[2]

\* C5: when the remote answers a Create with a status other than 201, the
\* Create ends with Success = false and the remote's detail, writes nothing
\* to the mirror, and neither the remote nor the mirror holds the record.
C5_RejectedCreate ==
    [][\A p \in Watched :
          (/\ req[p].pc = "create_post"
           /\ req'[p].result # None
           /\ req'[p].result.status_code # StatusCreated)
          => /\ req'[p].pc = "done"
             /\ CarriesDetail(req'[p].resp, req'[p].result)
             /\ req'[p].resp[2].Alert_id = -1
             /\ req'[p].nwrites = 0
             /\ mirror' = mirror
             /\ remote' = remote]_vars

\* C6: when the remote create succeeded and the insert into the mirror
\* fails, the Create ends with Success = false, the id the remote assigned
\* and the description of the failed insert; it makes no further call to the
\* remote (no compensating delete), so the remote holds the configuration
\* and the mirror has no row of it.
C6_InsertFailed ==
    [][\A p \in Watched :
          (req[p].pc = "create_insert" /\ req'[p].rc = Num(-1))
          => /\ req'[p].pc = "done"
             /\ req'[p].resp = CreateResponse(req[p].aid, FALSE,
                                   Desc("Database insertion error", 0, "", req[p].aid))
             /\ req[p].aid \in accepted
             /\ req[p].result.headers["Location"] = LocationHeader(req[p].aid)
             /\ req'[p].ncalls = 1
             /\ remote' = remote
             /\ mirror' = mirror
             /\ req[p].aid \in DOMAIN remote'
             /\ req[p].aid \notin DOMAIN mirror']_vars

\* A Create has ended with a failed insert: the id is on the remote only.
C6_Witness ==
    /\ req["r1"].op = "create" /\ req["r1"].pc = "done"
    /\ req["r1"].rc = Num(-1)
    /\ req["r1"].resp[2].Success = FALSE
    /\ req["r1"].resp[2].Alert_id = req["r1"].aid
    /\ req["r1"].aid \in DOMAIN remote
    /\ req["r1"].aid \notin DOMAIN mirror

\* The answer of the remote to the /modify or /delete of client p in this
\* step is a status other than 204.
Refused(p, route) ==
    /\ req[p].pc = "idle"
    /\ req'[p].op = route
    /\ req'[p].result # None
    /\ req'[p].result.status_code # StatusNoContent

\* C7: when the remote rejects a Modify, the handler ends there without a
\* write to the mirror: the mirror is unchanged, and the remote and the
\* mirror both hold the values they held before the request.
C7_RejectedModify ==
    [][\A p \in Watched :
          Refused(p, "modify")
          => /\ req'[p].pc \in {"done", "fault"}
             /\ req'[p].nwrites = 0
             /\ req'[p].resp # PlainResponse(TRUE,
                     Desc("alert configuration has been updated", 0, "", req'[p].aid))
             /\ mirror' = mirror
             /\ remote' = remote]_vars

\* A Modify of a configuration both sides hold has been rejected.
C7_Witness ==
    /\ req["r1"].op = "modify" /\ req["r1"].pc = "done"
    /\ req["r1"].result # None
    /\ req["r1"].result.status_code # StatusNoContent
    /\ req["r1"].aid \in DOMAIN mirror
    /\ req["r1"].aid \in DOMAIN remote
    /\ mirror[req["r1"].aid]["max_weekly"] = DefaultMaxWeekly

\* The remote configuration r holds the values of the /modify dict d.
HoldsNewValues(r, d) ==
    /\ \A k \in FilterKeys \cup {"max_weekly"} : r[k] = d[k]
    /\ \A e \in EventKeys : r["events"][e] = d[e]

\* C8: when the remote modify succeeded and the update of the mirror fails,
\* the Modify ends with Success = false and the description of the failed
\* update, after one attempt (no retry); the remote holds the new values and
\* the row of the mirror is as it was before the request.
C8_UpdateFailed ==
    [][\A p \in Watched :
          (req[p].pc = "modify_update" /\ req'[p].rc = Num(-1))
          => /\ req'[p].pc = "done"
             /\ req'[p].resp = PlainResponse(FALSE,
                     Desc("Error modifying the alert configuration", 0, "", req[p].aid))
             /\ req'[p].nwrites = 1
             /\ req'[p].ncalls = 1
             /\ mirror' = mirror
             /\ remote' = remote
             /\ HoldsNewValues(remote'[req[p].aid], req[p].data)]_vars

\* A Modify from max_weekly 1000 to 500 has ended with a failed update: the
\* remote holds 500, the mirror still 1000.
C8_Witness ==
    /\ req["r1"].op = "modify" /\ req["r1"].pc = "done"
    /\ req["r1"].rc = Num(-1)
    /\ req["r1"].resp[2].Success = FALSE
    /\ req["r1"].aid \in DOMAIN mirror
    /\ mirror[req["r1"].aid]["max_weekly"] = DefaultMaxWeekly
    /\ remote[req["r1"].aid]["max_weekly"] = 500

\* The ListAll of client p has answered, and p's Delete before it ended with
\* the given outcome.
ListedAfterDelete(p, outcome) ==
    /\ req[p].op = "list" /\ req[p].pc = "done"
    /\ lastDelete[p].outcome = outcome

\* The entries of the answer of client p's ListAll.
Listing(p) == req[p].resp[2].alert_configurations

\* The answer of client p's ListAll has an entry of id tagged app.
ListedAsApp(p, id) ==
    \E i \in 1..Len(Listing(p)) :
        Listing(p)[i]["fa_alert_id"] = id /\ Listing(p)[i]["is_from_app"]

\* C9 as stated: a Delete of an id followed by a ListAll never returns that
\* id tagged app, whatever the outcome of the Delete.
C9_NeverListedAfterDelete ==
    \A p \in Watched :
        (req[p].op = "list" /\ req[p].pc = "done" /\ lastDelete[p].outcome # "none")
        => ~ListedAsApp(p, lastDelete[p].id)

\* C9, amended: a Delete of an id whose remote delete and mirror delete both
\* succeeded, followed by a ListAll with no write to the mirror in between,
\* never returns that id tagged app.
C9_NotListedAfterDeleted ==
    \A p \in Watched :
        ListedAfterDelete(p, "deleted") => ~ListedAsApp(p, lastDelete[p].id)

\* A ListAll has answered after the Delete of a row the mirror held.
C9_Witness ==
    /\ ListedAfterDelete("r1", "deleted")
    /\ lastDelete["r1"].row # None
    /\ Len(Listing("r1")) > 0

\* C10: when the remote rejects a Delete, the handler ends there and the
\* mirror is unchanged; a ListAll that follows returns the row of that id, if
\* the mirror held one, tagged app and with the values it had.
C10_RejectedDelete ==
    [][/\ \A p \in Watched :
             Refused(p, "delete")
             => /\ req'[p].pc \in {"done", "fault"}
                /\ req'[p].nwrites = 0
                /\ mirror' = mirror
                /\ remote' = remote
       /\ \A p \in Watched :
             (ListedAfterDelete(p, "rejected")' /\ lastDelete'[p].row # None)
             => \E i \in 1..Len(Listing(p)') :
                   /\ Listing(p)'[i]["is_from_app"]
                   /\ Listing(p)'[i]["fa_alert_id"] = lastDelete'[p].id
                   /\ \A c \in Columns :
                         Listing(p)'[i][c] = lastDelete'[p].row[2][c]]_vars

\* A ListAll has answered after the rejected Delete of a row of the mirror.
C10_Witness ==
    /\ ListedAfterDelete("r1", "rejected")
    /\ lastDelete["r1"].row # None
    /\ ListedAsApp("r1", lastDelete["r1"].id)

\* The answer of client p's ListAll has an entry of id tagged external.
ListedAsExternal(p, id) ==
    \E i \in 1..Len(Listing(p)) :
        Listing(p)[i]["fa_alert_id"] = id /\ ~Listing(p)[i]["is_from_app"]

\* C11: when the remote delete succeeded and the delete from the mirror
\* fails, the Delete ends with Success = false and the description of the
\* failed delete, and the row stays in the mirror; as long as the row is in
\* the mirror, every ListAll that answers returns its id tagged app, although
\* the remote no longer holds that id.
C11_MirrorDeleteFailed ==
    [][/\ \A p \in Watched :
             (req[p].pc = "delete_local" /\ req'[p].rc = Num(-1))
             => /\ req'[p].pc = "done"
                /\ req'[p].resp = PlainResponse(FALSE,
                        Desc("Error deleting the alert configuration", 0, "", req[p].aid))
                /\ req'[p].nwrites = 1
                /\ req'[p].ncalls = 1
                /\ mirror' = mirror
                /\ req[p].aid \notin DOMAIN remote'
       /\ \A p \in Watched :
             (req'[p].op = "list" /\ req'[p].pc = "done")
             => \A id \in (DOMAIN mirror') \cap remoteGone' :
                   /\ id \notin DOMAIN remote'
                   /\ ListedAsApp(p, id)'
                   /\ ~ListedAsExternal(p, id)']_vars

\* A ListAll has answered after a Delete whose mirror delete failed: the id
\* is listed as the app's and the remote does not hold it.
C11_Witness ==
    /\ ListedAfterDelete("r1", "mirror failed")
    /\ lastDelete["r1"].row # None
    /\ ListedAsApp("r1", lastDelete["r1"].id)
    /\ lastDelete["r1"].id \notin DOMAIN remote
    /\ req["r1"].ncalls = 1

\* The ids of the entries of a listing, in its order.
IdsOf(listing) == [i \in 1..Len(listing) |-> listing[i]["fa_alert_id"]]

\* No id occurs twice in a listing.
NoRepeatedId(listing) ==
    \A i, j \in 1..Len(listing) :
        i # j => listing[i]["fa_alert_id"] # listing[j]["fa_alert_id"]

\* What get_alert_configs of client p, having read the mirror, answers when
\* GET /alerts is answered from the remote as it is now.
AnswerNow(p) ==
    list_get(req[p], << "alerts", RemoteAlerts(remote) >>).resp[2].alert_configurations

\* C12: whenever ListAll answers, whatever Create, Modify or Delete requests
\* of other clients are in flight and whatever they did since ListAll read
\* the mirror, no id occurs twice in the answer.
C12_NoRepeatedId ==
    \A p \in Procs : req[p].pc = "list_get" => NoRepeatedId(AnswerNow(p))

\* ListAll is about to answer with an app row and an external entry while a
\* Create of another client has its id on the remote and not yet in the mirror.
C12_Witness ==
    /\ req["c1"].pc = "list_get"
    /\ Len(req["c1"].listed) > 0
    /\ Len(AnswerNow("c1")) > Len(req["c1"].listed)
    /\ req["c2"].pc = "create_insert"
    /\ req["c2"].aid \in DOMAIN remote

\* The listing is the rows of table m tagged app followed by nothing else
\* than the configurations of r that have no row in m, tagged external, each
\* id once.
ExactListing(listing, m, r) ==
    /\ NoRepeatedId(listing)
    /\ \A id \in DOMAIN m :
          \E i \in 1..Len(listing) :
             /\ listing[i]["is_from_app"]
             /\ \A c \in Columns : listing[i][c] = m[id][c]
    /\ \A id \in (DOMAIN r) \ (DOMAIN m) :
          \E i \in 1..Len(listing) :
             /\ ~listing[i]["is_from_app"]
             /\ listing[i]["fa_alert_id"] = id
             /\ \A k \in FilterKeys : listing[i][k] = r[id][k]
    /\ \A i \in 1..Len(listing) :
          /\ listing[i]["is_from_app"] <=> listing[i]["fa_alert_id"] \in DOMAIN m
          /\ listing[i]["fa_alert_id"] \in (DOMAIN m) \cup (DOMAIN r)

\* C13: when ListAll answers, the answer is exactly every mirror row tagged
\* app plus every remote configuration without a mirror row tagged external:
\* an id is tagged app iff the mirror has a row of it, and every remote
\* configuration is in the answer under exactly one tag.
C13_ExactListing ==
    [][\A p \in Watched :
          (req[p].pc = "list_get" /\ req'[p].pc = "done")
          => ExactListing(Listing(p)', mirror, remote)]_vars

\* C14: a ListAll that answers right after another ListAll answered, with no
\* Create, Modify or Delete and no change of the remote in between, returns
\* the same multiset of (id, provenance) pairs; and the steps of ListAll
\* change neither the mirror nor the remote.
C14_ListAllIdempotent ==
    [][\A p \in Watched :
          /\ (req[p].pc = "list_get" /\ req'[p].pc = "done" /\ lastList # None)
             => PairsOf(Listing(p)') = lastList[2]
          /\ (req'[p].op = "list" /\ req'[p] # req[p])
             => mirror' = mirror /\ remote' = remote]_vars

\* The four filter fields of dicts (or rows) a and b are equal.
SameTuple(a, b) == \A k \in FilterKeys : a[k] = b[k]

\* C15: nothing keeps two overlapping Creates of the same tuple from both
\* inserting: while a Create is past the duplicate check, another Create of
\* the same tuple passes the check as long as the mirror has no such row, and
\* the insert of a Create past the check succeeds (when the store takes the
\* write) whatever rows the mirror holds by then.  The state with two rows of
\* distinct ids and one tuple is reachable.
C15_NothingPreventsRace ==
    /\ \A p \in Concurrent :
          req[p].pc = "create_insert"
          => LET r == insert_into_table(mirror, req[p].data, TRUE)
             IN  r.rc = 0 /\ req[p].aid \in DOMAIN r.table
    /\ \A p, q \in Concurrent :
          (/\ p # q /\ Ready(p)
           /\ req[q].pc \in {"create_post", "create_insert"}
           /\ ~MatchesRow(mirror, req[q].data))
          => \E payload \in CreatePayloads :
                /\ SameTuple(payload, req[q].data)
                /\ create_check(Fresh("create"), TRUE, payload, TRUE).pc = "create_post"

\* The mirror holds two rows of distinct ids with CreateA's tuple, which no
\* /modify payload sets: both Creates passed the check before either insert.
C15_Witness ==
    \E i, j \in DOMAIN mirror :
        /\ i # j
        /\ SameTuple(mirror[i], mirror[j])
        /\ SameTuple(mirror[i], CreateA)

\* Client p's handler made a remote call in this step and ended without a
\* response of the remote: the call failed at network level.
NoAnswer(p) ==
    /\ req'[p] # req[p]
    /\ req'[p].ncalls = req[p].ncalls + 1
    /\ req'[p].result = None
    /\ req'[p].pc \in {"done", "fault"}

\* C16: when a remote call of Create, Modify, Delete or ListAll fails at
\* network level, the handler returns a response to the caller (an outcome
\* that is not the one of a rejection) and leaves the mirror unchanged.
C16_Unreachable ==
    [][\A p \in Watched :
          NoAnswer(p)
          => /\ IsJson(req'[p].resp)
             /\ req'[p].op # "list" => req'[p].resp[2].Success = FALSE
             /\ mirror' = mirror]_vars

\* Client p's Create, Modify or Delete received in this step a response of
\* the remote whose status is not the success status of the route.
NonSuccess(p) ==
    /\ req[p].result = None
    /\ req'[p].result # None
    /\ req'[p].op \in {"create", "modify", "delete"}
    /\ req'[p].result.status_code #
          (IF req'[p].op = "create" THEN StatusCreated ELSE StatusNoContent)

\* C17: on every non-success response of the remote to Create, Modify or
\* Delete, whether its body is JSON with a detail, JSON without a detail or
\* not JSON, the handler ends with a Success = false response whose
\* description carries the status and the detail of the parsed body or else
\* the raw body; it never ends with an unhandled exception.
C17_NonSuccessNeverFaults ==
    [][\A p \in Watched :
          NonSuccess(p)
          => /\ req'[p].pc = "done"
             /\ IsJson(req'[p].resp)
             /\ req'[p].resp[2].Success = FALSE
             /\ req'[p].resp[2].Description.status = req'[p].result.status_code
             /\ \/ CarriesDetail(req'[p].resp, req'[p].result)
                \/ /\ req'[p].result.body[1] = "json"
                   /\ "detail" \notin DOMAIN req'[p].result.body[2]]_vars

\* C18: no step of a Modify adds or removes a row of the mirror or changes
\* the fa_alert_id of a row, and every row other than the one of the
\* request's id is unchanged.
C18_ModifyFrame ==
    [][\A p \in Watched :
          (req'[p].op = "modify" /\ req'[p] # req[p])
          => /\ DOMAIN mirror' = DOMAIN mirror
             /\ \A id \in DOMAIN mirror :
                   /\ mirror'[id]["fa_alert_id"] = mirror[id]["fa_alert_id"]
                   /\ id # req'[p].aid => mirror'[id] = mirror[id]]_vars

\* A Modify has updated its row (max_weekly 500) beside another row that
\* still has the default.
C18_Witness ==
    /\ req["r1"].op = "modify" /\ req["r1"].pc = "done"
    /\ req["r1"].rc = Num(0)
    /\ req["r1"].aid \in DOMAIN mirror
    /\ mirror[req["r1"].aid]["max_weekly"] = 500
    /\ mirror[req["r1"].aid]["departure"]
    /\ \E id \in DOMAIN mirror :
          id # req["r1"].aid /\ mirror[id]["max_weekly"] = DefaultMaxWeekly

\* Client p's /post came in with this step.
Posted(p) == req[p].pc = "idle" /\ req'[p].op = "post"

\* The notification has every field handle_alert stores.
HasAllFields(data) ==
    /\ AlertKeys \subseteq DOMAIN data
    /\ "flight" \in DOMAIN data
    /\ FlightKeys \subseteq DOMAIN data["flight"]

\* Table t2 is table t with exactly one row appended, made of the fields of
\* the notification.
OneRowAppended(t, t2, data) ==
    /\ Len(t2) = Len(t) + 1
    /\ SubSeq(t2, 1, Len(t)) = t
    /\ \A k \in AlertKeys : t2[Len(t2)][k] = data[k]
    /\ \A k \in FlightKeys : t2[Len(t2)][k] = data["flight"][k]

\* No row of the events table is updated or deleted in a step.
EventsKept == Len(events') >= Len(events) /\ SubSeq(events', 1, Len(events)) = events

\* The status of the response of /post.
PostStatus(p) == req'[p].resp[2].status

\* C19 as stated: every notification with all required fields appends
\* exactly one row, one that lacks a field appends none and is answered 400,
\* and no step updates or deletes a row of the events table.
C19_OneRowPerNotification ==
    [][/\ EventsKept
       /\ \A p \in Watched :
             Posted(p)
             => IF HasAllFields(req'[p].data)
                THEN OneRowAppended(events, events', req'[p].data)
                ELSE events' = events /\ PostStatus(p) = 400]_vars

\* C19, amended: a notification with all required fields appends exactly one
\* row and is answered 200 when the store takes the insert, and appends none
\* and is answered 500 when the insert fails; one that lacks a field appends
\* none and is answered 400; no step updates or deletes a row of the table.
C19_AppendOnly ==
    [][/\ EventsKept
       /\ \A p \in Watched :
             Posted(p)
             => IF ~HasAllFields(req'[p].data)
                THEN events' = events /\ PostStatus(p) = 400 /\ req'[p].nwrites = 0
                ELSE /\ req'[p].nwrites = 1
                     /\ IF req'[p].rc = Num(0)
                        THEN /\ OneRowAppended(events, events', req'[p].data)
                             /\ PostStatus(p) = 200
                        ELSE events' = events /\ PostStatus(p) = 500]_vars

\* A notification has been stored behind an earlier, different one and
\* answered 200.
C19_Witness ==
    /\ Len(events) = 2
    /\ events[1]["event_code"] # events[2]["event_code"]
    /\ req["r1"].op = "post" /\ req["r1"].pc = "done"
    /\ req["r1"].rc = Num(0)
    /\ events[2]["summary"] = req["r1"].data["summary"]
    /\ req["r1"].resp[2].status = 200

\* The /create payload the dict d of a handler was made of.
PayloadOf(d) == CHOOSE payload \in CreatePayloads : SameTuple(payload, d)

\* What a payload asks for: its own max_weekly and events, or 1000 and all
\* five flags false where it has none.
WantedMaxWeekly(payload) ==
    IF "max_weekly" \in DOMAIN payload THEN payload["max_weekly"] ELSE 1000
WantedEvent(payload, e) ==
    IF "events" \in DOMAIN payload THEN payload["events"][e] ELSE FALSE

\* C20: the configuration a Create sends to the remote, and the row a
\* successful Create stores in the mirror, have the max_weekly and the five
\* event flags of the payload where it supplies them, and max_weekly 1000 and
\* all five flags false where it does not.
C20_Defaults ==
    [][\A p \in Watched :
          /\ (req[p].pc = "create_post" /\ nextId' # nextId /\ req'[p] # req[p])
             => LET payload == PayloadOf(req[p].data)
                IN  /\ remote'[nextId]["max_weekly"] = WantedMaxWeekly(payload)
                    /\ \A e \in EventKeys :
                          remote'[nextId]["events"][e] = WantedEvent(payload, e)
          /\ (req[p].pc = "create_insert" /\ req'[p].rc = Num(0))
             => LET payload == PayloadOf(req[p].data)
                    row == mirror'[req[p].aid]
                IN  /\ row["max_weekly"] = WantedMaxWeekly(payload)
                    /\ \A e \in EventKeys : row[e] = WantedEvent(payload, e)
                    /\ req'[p].resp[2].Success]_vars

\* Two Creates have succeeded: the row of the payload without events and
\* max_weekly has the defaults, on both sides; the row of the payload with
\* max_weekly 500 and the arrival flag has kept them.
C20_Witness ==
    \E i, j \in (DOMAIN mirror) \cap (DOMAIN remote) :
        /\ mirror[i]["max_weekly"] = 1000 /\ remote[i]["max_weekly"] = 1000
        /\ \A e \in EventKeys : ~mirror[i][e] /\ ~remote[i]["events"][e]
        /\ mirror[i]["aircraft_type"] = CreateA["aircraft_type"]
        /\ mirror[j]["max_weekly"] = 500 /\ mirror[j]["arrival"]
        /\ mirror[j]["aircraft_type"] = CreateC["aircraft_type"]
        /\ mirror[j]["start_date"] = None
        /\ req["r1"].op = "create" /\ req["r1"].pc = "done"

\* The /create of client p came in with JSON content and ended at the
\* duplicate check although no row of the mirror has its tuple: the select
\* of the check failed.
CheckReadFailed(p) ==
    /\ req[p].pc = "idle"
    /\ req'[p].op = "create"
    /\ DOMAIN req'[p].data # {}
    /\ req'[p].pc \in {"done", "fault"}
    /\ ~MatchesRow(mirror, req'[p].data)

\* C21: when the select of the duplicate check fails, the Create makes no
\* remote call and no mirror write, leaves the mirror and the remote as they
\* are, and answers the caller with a Success = false response.
C21_CheckReadFailure ==
    [][\A p \in Watched :
          CheckReadFailed(p)
          => /\ req'[p].ncalls = 0
             /\ req'[p].nwrites = 0
             /\ mirror' = mirror
             /\ remote' = remote
             /\ IsJson(req'[p].resp)
             /\ req'[p].resp[2].Success = FALSE]_vars

\* In a listing every entry tagged app comes before every entry tagged
\* external.
AppFirst(listing) ==
    \A i, j \in 1..Len(listing) :
        (listing[i]["is_from_app"] /\ ~listing[j]["is_from_app"]) => i < j

\* An external entry has max_weekly 1000 and the event flags configuration c
\* of the remote has.
CarriesRemoteFlags(entry, c) ==
    /\ entry["max_weekly"] = 1000
    /\ \A e \in EventKeys : entry[e] = c.events[e]

\* C22: in every answer of ListAll the entries tagged app precede the entries
\* tagged external, and every external entry is of a configuration the remote
\* holds, with max_weekly 1000 and that configuration's event flags.
C22_AppFirstExternalDefaults ==
    \A p \in Watched :
        (req[p].op = "list" /\ req[p].pc = "done")
        => /\ AppFirst(Listing(p))
           /\ \A i \in 1..Len(Listing(p)) :
                 ~Listing(p)[i]["is_from_app"]
                 => /\ Listing(p)[i]["fa_alert_id"] \in DOMAIN remote
                    /\ CarriesRemoteFlags(Listing(p)[i],
                                          remote[Listing(p)[i]["fa_alert_id"]])

\* ListAll answered with an app row followed by an external entry whose
\* remote configuration has an event flag on and another max_weekly.
C22_Witness ==
    /\ req["r1"].op = "list" /\ req["r1"].pc = "done"
    /\ Len(Listing("r1")) = 2
    /\ Listing("r1")[1]["is_from_app"]
    /\ ~Listing("r1")[2]["is_from_app"]
    /\ Listing("r1")[2]["arrival"]
    /\ remote[Listing("r1")[2]["fa_alert_id"]].max_weekly # 1000

\* Every identifier the remote has issued so far was issued to a Create of
\* the app: no other user of the remote has changed it.
NoOutsideChange == \A id \in FirstId..(nextId - 1) : id \in accepted

\* The request of client p ended with a JSON response of route r.
Answered(p, r) == req[p].op = r /\ req[p].pc = "done" /\ IsJson(req[p].resp)

\* The remote accepted the mutation of client p's request with status st and
\* the mirror write that followed returned 0.
BothSucceeded(p, st) ==
    /\ req[p].result # None
    /\ req[p].result.status_code = st
    /\ req[p].rc = Num(0)

\* Success = true is reported exactly when both the remote mutation and the
\* mirror write succeeded.
SuccessIffBoth(p) ==
    /\ Answered(p, "create")
       => (req[p].resp[2].Success <=> BothSucceeded(p, StatusCreated))
    /\ (Answered(p, "modify") \/ Answered(p, "delete"))
       => (req[p].resp[2].Success <=> BothSucceeded(p, StatusNoContent))

\* C23: Create, Modify and Delete report Success = true iff the remote
\* mutation and the mirror write after it both succeeded; and when no other
\* user has changed the remote, after a Success = true answer of the one
\* client the remote and the mirror both hold the id (Create, Modify) or
\* neither holds it (Delete).
C23_SuccessMeansAgreement ==
    \A p \in Watched :
        /\ SuccessIffBoth(p)
        /\ (NoOutsideChange /\ (Answered(p, "create") \/ Answered(p, "modify"))
             /\ req[p].resp[2].Success)
           => (req[p].aid \in DOMAIN remote /\ req[p].aid \in DOMAIN mirror)
        /\ (NoOutsideChange /\ Answered(p, "delete") /\ req[p].resp[2].Success)
           => (req[p].aid \notin DOMAIN remote /\ req[p].aid \notin DOMAIN mirror)

\* No two rows of table m have the same (ident, origin, destination,
\* aircraft_type).
NoRepeatedTuple(m) ==
    \A i, j \in DOMAIN m : i # j => ~SameTuple(m[i], m[j])

\* C24 as stated: in a run of one client, request after request from an empty
\* mirror, no two mirror rows ever have the same (ident, origin, destination,
\* aircraft_type), whatever Create, Modify and Delete requests were made.
C24_NoRepeatedTuple == NoRepeatedTuple(mirror)

\* C24, amended: in a run of one client, request after request from an empty
\* mirror, only the mirror update of a Modify can give two rows the same
\* tuple; every step of a Create or a Delete leaves the rows' tuples distinct
\* when they were distinct before it.
C24_OnlyModifyRepeatsTuple ==
    [][(NoRepeatedTuple(mirror) /\ \A p \in Watched : req[p].pc # "modify_update")
       => NoRepeatedTuple(mirror')]_vars

\* A Create has just added a second row to the mirror, of another tuple than
\* the row it found there.
C24_Witness ==
    /\ Answered("r1", "create")
    /\ req["r1"].resp[2].Success
    /\ Cardinality(DOMAIN mirror) = 2
    /\ NoRepeatedTuple(mirror)

\* The ids of the rows client p's ListAll read from the mirror.
IdsRead(p) == {req[p].listed[i]["fa_alert_id"] : i \in 1..Len(req[p].listed)}

\* The ids of the entries tagged external in a listing.
ExternalIds(listing) ==
    {listing[i]["fa_alert_id"] : i \in {j \in 1..Len(listing) : ~listing[j]["is_from_app"]}}

\* C25 as stated: when ListAll answers while Creates and Deletes of other
\* clients are in flight, no entry tagged external has a row in the mirror at
\* that moment.
C25_NoExternalWithRow ==
    \A p \in Reader :
        req[p].pc = "list_get" => ExternalIds(AnswerNow(p)) \cap DOMAIN mirror = {}

\* C25, amended: when ListAll answers while Creates and Deletes of other
\* clients are in flight, every entry tagged external is of a configuration
\* the remote holds whose id was not among the rows ListAll read from the
\* mirror; the mirror may hold a row of it by the time ListAll answers.
C25_ExternalNotAmongRowsRead ==
    \A p \in Reader :
        req[p].pc = "list_get"
        => /\ ExternalIds(AnswerNow(p)) \cap IdsRead(p) = {}
           /\ ExternalIds(AnswerNow(p)) \subseteq DOMAIN remote

\* ListAll read a row from the mirror and is about to answer with an entry
\* tagged external whose row another client's Create has inserted since.
C25_Witness ==
    /\ req["c1"].pc = "list_get"
    /\ IdsRead("c1") # {}
    /\ \E id \in ExternalIds(AnswerNow("c1")) :
          id \in DOMAIN mirror /\ id \in accepted

\* No flight id occurs twice in a list of ids.
NoRepeatedFlight(id_list) ==
    \A i, j \in 1..Len(id_list) : i # j => id_list[i] # id_list[j]

\* C26: after any sequence of boards_request calls for a board, neither the
\* list of flights the last call returned nor the id list cached for the
\* board has a flight id twice, also when fewer than 15 entries were cached
\* and the flights of a new remote request were merged into them.
C26_NoRepeatedFlight ==
    /\ NoRepeatedFlight([i \in 1..Len(flights) |-> flights[i].id])
    /\ \A api_resource \in DOMAIN CACHE.lists :
          NoRepeatedFlight(CACHE.lists[api_resource])

====
